---- MODULE Spec2Model ----
(***************************************************************************)
(* Abstract resolution and merge of the patent pipeline:                   *)
(*   PatentDataFetcher  (src/patent_analyzer/src/patent_data_fetcher.py)   *)
(*   AbstractIntegrator (src/patent_analyzer/src/abstract_integrator.py)   *)
(*                                                                         *)
(* Encoding of Python/JSON values                                          *)
(*   str            a sequence of one-character strings, "" is << >>       *)
(*   a value        None (JSON null) is << >>, any other value x is << x >>*)
(*   dict           a function from key names to values; a key the dict    *)
(*                  does not hold is outside its DOMAIN                    *)
(*   URL            the components urlparse() splits it into               *)
(* The abstracts directory is a function from patent id to the content of  *)
(* <abstracts_dir>/<id>.json.  Opening and writing a file of that          *)
(* directory succeeds (the directory is created by __init__, ids are file  *)
(* names); what a read returns depends on the file's content alone.        *)
(***************************************************************************)
EXTENDS Integers, Sequences, FiniteSets, TLC

\* ------------------------------------------------------------------ bounds
MaxPatents == 3   \* longest patent list read from the JSON/CSV input
MaxBatches == 2   \* extract_patent_data calls (runs of the resolver) explored

\* ------------------------------------------------------- Python primitives
None == << >>
Some(x) == << x >>

Whitespace == {" ", "\n"}

RECURSIVE LStrip(_)
LStrip(s) == IF s # << >> /\ Head(s) \in Whitespace THEN LStrip(Tail(s)) ELSE s

RECURSIVE RStrip(_)
RStrip(s) ==
  IF s # << >> /\ s[Len(s)] \in Whitespace
  THEN RStrip(SubSeq(s, 1, Len(s) - 1))
  ELSE s

\* str.strip()
Strip(s) == RStrip(LStrip(s))

\* bool(v) of an Optional[str]: None and "" are falsy
Truthy(v) == v # None /\ v[1] # << >>

\* dict.get(k) and dict.get(k, dflt)
Get(d, k) == IF k \in DOMAIN d THEN d[k] ELSE None
GetOr(d, k, dflt) == IF k \in DOMAIN d THEN d[k] ELSE dflt

\* d.copy() followed by .update(u)
Update(d, u) ==
  [k \in DOMAIN d \cup DOMAIN u |-> IF k \in DOMAIN u THEN u[k] ELSE d[k]]

\* --------------------------------------------------------------- the input
S(c) == << c >>
PatentSeg == << "p", "a", "t", "e", "n", "t" >>

Url(scheme, netloc, path) == [scheme |-> scheme, netloc |-> netloc, path |-> path]

\* bool(url) of an Optional[str] holding a URL: None and "" are falsy
TruthyUrl(v) ==
  v # None /\ ~(v[1].scheme = "" /\ v[1].netloc = "" /\ v[1].path = << >>)

IdA == S("A")
IdB == S("B")
IdC == S("C")
IdD == S("D")
IdE == S("E")
IdF == S("F")
IdG == S("G")

Patent(id, title, link) == [id |-> id, title |-> title, result_link |-> link]

GoodA == Patent(Some(IdA), Some(S("x")), Some(Url("https", "patents.google.com", << PatentSeg, IdA >>)))
GoodB == Patent(Some(IdB), None, Some(Url("http", "patents.google.com", << S("x"), PatentSeg, IdB, S("e") >>)))
GoodC == Patent(Some(IdC), Some(S("z")), Some(Url("https", "patents.google.com", << PatentSeg, IdC, S("") >>)))
WrongHost == Patent(Some(IdD), Some(S("y")), Some(Url("https", "example.com", << S("f") >>)))
EmptyId == Patent(Some(<< >>), Some(S("y")), Some(Url("https", "patents.google.com", << PatentSeg, IdE >>)))
NoLink == Patent(Some(IdE), Some(S("y")), None)
WrongScheme == Patent(Some(IdF), None, Some(Url("ftp", "patents.google.com", << PatentSeg, IdF >>)))
NoPatentPath == Patent(Some(IdG), None, Some(Url("https", "patents.google.com", << PatentSeg >>)))

NoId == Patent(None, Some(S("y")), Some(Url("https", "patents.google.com", << PatentSeg, IdE >>)))
EmptyLink == Patent(Some(IdE), None, Some(Url("", "", << >>)))

Candidates ==
  {GoodA, GoodB, GoodC, WrongHost, EmptyId, NoId, NoLink, EmptyLink, WrongScheme, NoPatentPath}

\* every id a patent of the input may carry: the file names of the directory
Ids == {IdA, IdB, IdC, IdD, IdE, IdF, IdG}

\* ------------------------------------------------------ the Abstract Store
\* content of one file of the abstracts directory
Absent == [kind |-> "absent"]            \* no such file
Corrupt == [kind |-> "corrupt"]          \* a file json.load() cannot parse
File(doc) == [kind |-> "json", doc |-> doc]

\* a parsed JSON document
JObject(d) == [json |-> "object", value |-> d]
JEmptyArray == [json |-> "array", value |-> << >>]

\* _get_abstract_file_path: <abstracts_dir>/<patent_id>.json
GetAbstractFilePath(patent_id) == patent_id \o << ".json" >>

FileNames == {GetAbstractFilePath(id) : id \in Ids}

\* _load_existing_abstract without its return statement
LoadExistingAbstractNone(st, patent_id) == None

\* _load_existing_abstract that drops the Title of the record it read
LoadExistingAbstractNoTitle(st, patent_id) ==
  LET abstract_file == GetAbstractFilePath(patent_id) IN
  IF st[abstract_file].kind = "json"
  THEN IF st[abstract_file].doc.json = "object"
       THEN Some(JObject(Update(st[abstract_file].doc.value, [Title |-> None])))
       ELSE Some(st[abstract_file].doc)
  ELSE None

\* _load_existing_abstract: the parsed file, None when the file is missing or
\* json.load raises
LoadExistingAbstract(st, patent_id) ==
  LET abstract_file == GetAbstractFilePath(patent_id) IN
  IF st[abstract_file].kind = "json" THEN Some(st[abstract_file].doc) ELSE None

\* _save_abstract_to_file that writes nothing
SaveNothing(st, patent_id, abstract_data) == st

\* _save_abstract_to_file: open(abstract_file, 'w') and json.dump
SaveAbstractToFile(st, patent_id, abstract_data) ==
  [st EXCEPT ![GetAbstractFilePath(patent_id)] = File(abstract_data)]

\* ------------------------------------------------------ the external scraper
\* what subprocess.run(cmd, capture_output=True, text=True, timeout=...) does
TimeoutMsg == << "Timeout while fetching abstract" >>
JsonErrMsg == << "Expecting value: line 1 column 1 (char 0)" >>
AttrErrMsg == << "'list' object has no attribute 'get'" >>
OsErrMsg == << "[Errno 12] Cannot allocate memory" >>

Exit(code, out, err) == [kind |-> "exit", returncode |-> code, stdout |-> out, stderr |-> err]
TimeoutExpired == [kind |-> "timeout"]
OSError == [kind |-> "oserror", msg |-> OsErrMsg]

Unparsable == [json |-> "invalid"]

\* stdout of get_abst_patent.py for one URL: ID, Title and Abstract only
ScrapedFull == JObject([ID |-> Some(S("i")), Title |-> Some(S("t")), Abstract |-> Some(<< " ", "a", "\n" >>)])
ScrapedBlank == JObject([ID |-> Some(S("i")), Title |-> Some(S("t")), Abstract |-> Some(<< " ", "\n" >>)])
\* stdout in the format of test/mock_get_abst_patent.py for an unknown id
ScrapedNull ==
  JObject([ID |-> Some(S("i")), Title |-> None, Abstract |-> None, URL |-> None,
           Error |-> Some(S("N")), RetryCount |-> Some(0)])

\* stdout with an abstract and a warning in Error
ScrapedWarned ==
  JObject([ID |-> Some(S("i")), Title |-> None, Abstract |-> Some(S("a")), Error |-> Some(S("w"))])

Outcomes ==
  { Exit(0, ScrapedFull, << >>),
    Exit(0, ScrapedWarned, << >>),
    Exit(0, ScrapedBlank, << >>),
    Exit(0, ScrapedNull, << >>),
    Exit(0, JEmptyArray, << "w", "\n" >>),
    Exit(0, Unparsable, << >>),
    Exit(1, Unparsable, << " ", "e", "\n" >>),
    TimeoutExpired,
    OSError }

\* ------------------------------------------------------- Abstract Fetcher
\* the cache-hit condition with the test of the trimmed text inverted
HasCachedAbstractInverted(existing_abstract) ==
  /\ existing_abstract # None
  /\ existing_abstract[1].json = "object"
  /\ Truthy(Get(existing_abstract[1].value, "Abstract"))
  /\ Strip(Get(existing_abstract[1].value, "Abstract")[1]) = << >>

\* a cache that never hits
HasCachedAbstractNever(existing_abstract) == FALSE

\* a cache that hits on any stored record, a stored failure included
HasCachedAbstractAnyRecord(existing_abstract) ==
  /\ existing_abstract # None
  /\ existing_abstract[1].json = "object"
  /\ DOMAIN existing_abstract[1].value # {}

\* the condition of the cache-hit branch
HasCachedAbstract(existing_abstract) ==
  /\ existing_abstract # None
  /\ existing_abstract[1].json = "object"
  /\ DOMAIN existing_abstract[1].value # {}
  /\ Truthy(Get(existing_abstract[1].value, "Abstract"))
  /\ Strip(Get(existing_abstract[1].value, "Abstract")[1]) # << >>

Enrichment(abstract, title, url, error, retry_count, source) ==
  [abstract |-> abstract, abstract_title |-> title, abstract_url |-> url,
   abstract_error |-> error, abstract_retry_count |-> retry_count,
   abstract_source |-> source]

\* error_data without the text of the error
ErrorDataNoError(patent_url, error) ==
  JObject([Abstract |-> None, Title |-> None, URL |-> patent_url,
           Error |-> None, RetryCount |-> Some(0)])

\* the record the three failure branches write
ErrorData(patent_url, error) ==
  JObject([Abstract |-> None, Title |-> None, URL |-> patent_url,
           Error |-> Some(error), RetryCount |-> Some(0)])

\* what a call of _fetch_abstract_for_patent does: the record it returns, the
\* directory it leaves, whether it ran the scraper, whether it raised instead
\* of returning
Resolved(enhanced_patent, st, invoked) ==
  [patent |-> enhanced_patent, store |-> st, invoked |-> invoked, raised |-> FALSE]

\* a failure branch that saves error_data and raises again
SavedFailureRaises(patent, st, error, source) ==
  [patent |-> Update(patent, Enrichment(None, None, None, Some(error), Some(0), source)),
   store |-> SaveAbstractToFile(st, patent.id[1], ErrorData(patent.result_link, error)),
   invoked |-> TRUE, raised |-> TRUE]

\* a failure branch: save error_data, annotate the record
SavedFailure(patent, st, error, source) ==
  Resolved(Update(patent, Enrichment(None, None, None, Some(error), Some(0), source)),
           SaveAbstractToFile(st, patent.id[1], ErrorData(patent.result_link, error)),
           TRUE)

\* _fetch_abstract_for_patent; out is what the scraper process does if it is run
FetchAbstractForPatent(patent, st, out) ==
  LET patent_id == patent.id[1]
      existing_abstract == LoadExistingAbstract(st, patent_id)
  IN
  IF HasCachedAbstract(existing_abstract)
  THEN LET e == existing_abstract[1].value IN
       Resolved(Update(patent, Enrichment(Get(e, "Abstract"), Get(e, "Title"), Get(e, "URL"),
                                          Get(e, "Error"), GetOr(e, "RetryCount", Some(0)),
                                          "cached_file")),
                st, FALSE)
  ELSE
    CASE out.kind = "exit" /\ out.returncode = 0 /\ out.stdout.json = "object" ->
           LET abstract_data == out.stdout.value IN
           Resolved(Update(patent, Enrichment(Get(abstract_data, "Abstract"),
                                              Get(abstract_data, "Title"),
                                              Get(abstract_data, "URL"), None,
                                              GetOr(abstract_data, "RetryCount", Some(0)),
                                              "newly_fetched")),
                    SaveAbstractToFile(st, patent_id, out.stdout), TRUE)
      [] out.kind = "exit" /\ out.returncode = 0 /\ out.stdout.json = "array" ->
           \* saved, then abstract_data.get raises AttributeError
           SavedFailure(patent, SaveAbstractToFile(st, patent_id, out.stdout),
                        AttrErrMsg, "exception_saved")
      [] out.kind = "exit" /\ out.returncode = 0 /\ out.stdout.json = "invalid" ->
           \* json.loads raises JSONDecodeError
           SavedFailure(patent, st, JsonErrMsg, "exception_saved")
      [] out.kind = "exit" /\ out.returncode # 0 ->
           SavedFailure(patent, st, Strip(out.stderr), "error_saved")
      [] out.kind = "timeout" ->
           SavedFailure(patent, st, TimeoutMsg, "timeout_saved")
      [] out.kind = "oserror" ->
           SavedFailure(patent, st, out.msg, "exception_saved")

\* ------------------------------------------------------------- validation
\* validate_url with the test of the scheme alone
ValidateUrlSchemeOnly(url) ==
  url.scheme \in {"http", "https"}

\* validate_url, on the components urlparse returns
ValidateUrl(url) ==
  /\ url.scheme \in {"http", "https"}
  /\ url.netloc = "patents.google.com"
  /\ \E n \in 1..(Len(url.path) - 1) : url.path[n] = PatentSeg

\* _validate_patent_record
ValidatePatentRecord(patent) ==
  /\ Truthy(Get(patent, "id"))
  /\ TruthyUrl(Get(patent, "result_link"))
  /\ ValidateUrl(patent.result_link[1])

\* the list comprehension of lines 54-61
RECURSIVE ValidPatents(_)
ValidPatents(patent_data) ==
  IF patent_data = << >> THEN << >>
  ELSE IF ValidatePatentRecord(Head(patent_data))
       THEN << Head(patent_data) >> \o ValidPatents(Tail(patent_data))
       ELSE ValidPatents(Tail(patent_data))

\* ------------------------------------------------------------ Batch Resolver
Min(a, b) == IF a < b THEN a ELSE b
Max(a, b) == IF a > b THEN a ELSE b

\* Python's seq[lo:hi] for integers lo, hi
PySliceIndex(x, n) == IF x < 0 THEN Max(x + n, 0) ELSE Min(x, n)
PySlice(seq, lo, hi) ==
  SubSeq(seq, PySliceIndex(lo, Len(seq)) + 1, PySliceIndex(hi, Len(seq)))

\* start_idx without the step from 1-based to 0-based
StartIdxOffByOne(start_number) == Max(0, start_number)

\* lines 66-70: start_idx and end_idx; batch_size is None or an integer
StartIdx(start_number) == Max(0, start_number - 1)
EndIdx(start_number, batch_size, total) ==
  IF batch_size # None THEN Min(StartIdx(start_number) + batch_size[1], total) ELSE total

\* line 71: batch_patents = valid_patents[start_idx:end_idx]
BatchPatents(valid, start_number, batch_size) ==
  PySlice(valid, StartIdx(start_number), EndIdx(start_number, batch_size, Len(valid)))

CachedSleep == 5      \* time.sleep(0.5), in tenths of a second
Delay == 20           \* self.delay, 2.0 by default, in tenths of a second

\* only the fetches that succeeded are counted
ProcessedSourcesFetched == {"newly_fetched"}

\* line 85: the sources counted as processed
ProcessedSources == {"newly_fetched", "error_saved", "timeout_saved", "exception_saved"}

\* ------------------------------------------------------------------ Merger
\* abstract_file.name in the place of abstract_file.stem
StemName(abstract_file) == abstract_file

\* Path.stem of <id>.json
Stem(abstract_file) == SubSeq(abstract_file, 1, Len(abstract_file) - 1)

\* abstracts = {patent_id: abstract_data} in the place of an item assignment
AddAbstractReplace(abstracts, patent_id, abstract_data) == patent_id :> abstract_data

\* line 125: abstracts[patent_id] = abstract_data
AddAbstract(abstracts, patent_id, abstract_data) ==
  Update(abstracts, patent_id :> abstract_data)

\* lines 117-127: read the files in the order glob yields them; a file that
\* fails to parse is logged and left out
RECURSIVE LoadAbstracts(_, _)
LoadAbstracts(files, st) ==
  IF files = << >> THEN << >>
  ELSE LET abstracts == LoadAbstracts(SubSeq(files, 1, Len(files) - 1), st)
           abstract_file == files[Len(files)]
       IN IF st[abstract_file].kind = "json"
          THEN AddAbstract(abstracts, Stem(abstract_file), st[abstract_file].doc)
          ELSE abstracts

\* line 135: patent_id in abstracts
InAbstracts(patent_id, abstracts) == patent_id # None /\ patent_id[1] \in DOMAIN abstracts

\* lines 132-154 with the not-found branch leaving abstract_error empty
IntegratePatentNoMessage(patent, abstracts) ==
  LET patent_id == Get(patent, "id") IN
  IF InAbstracts(patent_id, abstracts)
  THEN LET abstract_data == abstracts[patent_id[1]].value IN
       Update(patent, Enrichment(Get(abstract_data, "Abstract"), Get(abstract_data, "Title"),
                                 Get(abstract_data, "URL"), Get(abstract_data, "Error"),
                                 GetOr(abstract_data, "RetryCount", Some(0)),
                                 "integrated_from_file"))
  ELSE Update(patent, Enrichment(None, None, None, None, Some(0), "not_found"))

\* lines 132-154 for one patent
IntegratePatent(patent, abstracts) ==
  LET patent_id == Get(patent, "id") IN
  IF InAbstracts(patent_id, abstracts)
  THEN LET abstract_data == abstracts[patent_id[1]].value IN
       Update(patent, Enrichment(Get(abstract_data, "Abstract"), Get(abstract_data, "Title"),
                                 Get(abstract_data, "URL"), Get(abstract_data, "Error"),
                                 GetOr(abstract_data, "RetryCount", Some(0)),
                                 "integrated_from_file"))
  ELSE Update(patent, Enrichment(None, None, None, Some(<< "Abstract file not found" >>), Some(0),
                                 "not_found"))

\* an inner join: patents without a file are left out
IntegrateMatched(patent_list, abstracts) ==
  LET matched == SelectSeq(patent_list, LAMBDA q : InAbstracts(Get(q, "id"), abstracts)) IN
  [ok |-> TRUE,
   patents |-> [n \in 1..Len(matched) |-> IntegratePatent(matched[n], abstracts)]]

\* lines 110-168 after the directory is read: False when .get is called on a
\* document that is no dict, else the list written to output_file
IntegrateAll(patent_list, abstracts) ==
  IF \E n \in 1..Len(patent_list) :
       /\ InAbstracts(Get(patent_list[n], "id"), abstracts)
       /\ abstracts[patent_list[n].id[1]].json # "object"
  THEN [ok |-> FALSE, patents |-> << >>]
  ELSE [ok |-> TRUE,
        patents |-> [n \in 1..Len(patent_list) |-> IntegratePatent(patent_list[n], abstracts)]]

\* the orders in which glob("*.json") may yield the files of the directory
GlobOrders(st) ==
  LET present == {f \in DOMAIN st : st[f].kind # "absent"} IN
  {o \in [1..Cardinality(present) -> present] :
     \A m, n \in 1..Cardinality(present) : m # n => o[m] # o[n]}

\* --------------------------------------------------------- Relevance Scorer
\* (src/patent_analyzer/src/relevance_scorer.py)
\* A Python number is an int or the float NaN; a record of the keywords file
\* holds its JSON values as they are.
PyInt(n) == [nan |-> FALSE, v |-> n]
NaN == [nan |-> TRUE, v |-> 0]

\* n * x and x + y of Python: NaN if an operand is NaN
Times(n, x) == IF x.nan THEN NaN ELSE PyInt(n * x.v)
Plus(x, y) == IF x.nan \/ y.nan THEN NaN ELSE PyInt(x.v + y.v)
\* x < y of Python: False if an operand is NaN
Less(x, y) == ~x.nan /\ ~y.nan /\ x.v < y.v

\* isinstance(x, float) and math.isnan(x)
IsNaN(x) == x.nan

\* str.lower() on the letters of the texts
LowerOf == [N |-> "n", L |-> "l", X |-> "x", A |-> "a"]
Lower(text) == [k \in 1..Len(text) |-> IF text[k] \in DOMAIN LowerOf THEN LowerOf[text[k]] ELSE text[k]]

\* len(pattern.findall(text)) for pattern = re.escape(keyword): the matches
\* from left to right that do not overlap
RECURSIVE FindAll(_, _)
FindAll(keyword, text) ==
  IF Len(text) < Len(keyword) THEN 0
  ELSE IF keyword = << >> THEN Len(text) + 1
       ELSE IF SubSeq(text, 1, Len(keyword)) = keyword
            THEN 1 + FindAll(keyword, SubSeq(text, Len(keyword) + 1, Len(text)))
            ELSE FindAll(keyword, Tail(text))

\* patent.get(k, "") or ""
TextOf(patent, k) == IF Truthy(Get(patent, k)) THEN patent[k][1] ELSE << >>

\* line 62: f"{title} {abstract}".lower()
CombinedText(patent) == Lower(TextOf(patent, "title") \o << " " >> \o TextOf(patent, "abstract"))

\* lines 73-81 with category_matches += matches
RECURSIVE CategoryMatchesCounting(_, _)
CategoryMatchesCounting(keywords, combined_text) ==
  IF keywords = << >> THEN 0
  ELSE FindAll(Lower(Head(keywords)), combined_text)
       + CategoryMatchesCounting(Tail(keywords), combined_text)

\* lines 73-81: the keywords of the list with at least one match
RECURSIVE CategoryMatches(_, _)
CategoryMatches(keywords, combined_text) ==
  IF keywords = << >> THEN 0
  ELSE (IF FindAll(Lower(Head(keywords)), combined_text) > 0 THEN 1 ELSE 0)
       + CategoryMatches(Tail(keywords), combined_text)

\* lines 64-93: the loop over keyword_categories, total_score from 0
RECURSIVE TotalScore(_, _)
TotalScore(categories, combined_text) ==
  IF categories = << >> THEN PyInt(0)
  ELSE LET category == categories[Len(categories)]
           category_score == GetOr(category, "score", PyInt(0))
           keywords == GetOr(category, "keywords", << >>)
           category_total == Times(CategoryMatches(keywords, combined_text), category_score)
       IN Plus(TotalScore(SubSeq(categories, 1, Len(categories) - 1), combined_text),
               category_total)

\* _calculate_patent_score
CalculatePatentScore(patent, keywords_cfg) ==
  TotalScore(GetOr(keywords_cfg, "keyword_categories", << >>), CombinedText(patent))

\* x.get("relevance_score", 0)
ScoreKey(x) == IF "relevance_score" \in DOMAIN x THEN x.relevance_score[1] ELSE PyInt(0)

Reverse(seq) == [k \in 1..Len(seq) |-> seq[Len(seq) + 1 - k]]

\* one step of the insertion sort list.sort runs on a short list: pivot goes
\* after the last element it is not less than
InsertByKey(sorted, pivot) ==
  LET after == {k \in 0..Len(sorted) :
                  \A m \in (k + 1)..Len(sorted) : Less(ScoreKey(pivot), ScoreKey(sorted[m]))}
      at == CHOOSE k \in after : \A m \in after : k <= m
  IN SubSeq(sorted, 1, at) \o << pivot >> \o SubSeq(sorted, at + 1, Len(sorted))

RECURSIVE SortAscending(_)
SortAscending(list) ==
  IF list = << >> THEN << >>
  ELSE InsertByKey(SortAscending(SubSeq(list, 1, Len(list) - 1)), list[Len(list)])

\* the list left as it is
SortByScoreNot(list) == list

\* list.sort(key=lambda x: x.get("relevance_score", 0), reverse=True) and
\* sorted(...) with the same arguments: the list is reversed, sorted in
\* ascending order by a stable sort, and reversed again
SortByScore(list) == Reverse(SortAscending(Reverse(list)))

\* calculate_relevance_scores
CalculateRelevanceScores(patent_data, keywords_cfg) ==
  SortByScore([n \in 1..Len(patent_data) |->
                 Update(patent_data[n],
                        [relevance_score |-> Some(CalculatePatentScore(patent_data[n], keywords_cfg))])])

\* orchestrator lines 597 and 639: the records whose score is not NaN
ValidScored(scored_data) == SelectSeq(scored_data, LAMBDA q : ~IsNaN(ScoreKey(q)))

\* ------------------------------------------------------------- Orchestrator
\* (src/patent_analyzer/src/patent_orchestrator.py)
\* A CSV export: a line before the header or none, the header, one line per
\* row, and a newline after the last line or none.  A row is the record of
\* its fields.
Csv(preamble, rows, newline) == [preamble |-> preamble, rows |-> rows, newline |-> newline]

\* _convert_csv_to_json: the header is the first line or, when that does not
\* start with "id,", the second; rows with an empty id or the id "id" are left
\* out
ConvertCsvToJson(csv_file) ==
  SelectSeq(csv_file.rows, LAMBDA row : Truthy(row.id) /\ row.id[1] # << "i", "d" >>)

\* what the jq script of AbstractIntegrator.csv_to_json makes of a line
PreambleRecord == Patent(Some(S("#")), None, None)
HeaderRecord ==
  Patent(Some(<< "i", "d" >>), Some(<< "t", "i", "t", "l", "e" >>),
         Some(Url("", "", << << "result link" >> >>)))
EmptyLineRecord == Patent(None, None, None)

\* split("\n") | map(split(",")) | map({...}) of the jq script
CsvLines(csv_file) ==
  (IF csv_file.preamble THEN << PreambleRecord >> ELSE << >>)
  \o << HeaderRecord >> \o csv_file.rows
  \o (IF csv_file.newline THEN << EmptyLineRecord >> ELSE << >>)

\* AbstractIntegrator.csv_to_json: .[1:-1] of the lines
IntegratorCsvToJson(csv_file) == PySlice(CsvLines(csv_file), 1, -1)

SkippedMsg == << "Skipped by --skip_abstract_fetch" >>

\* the skip path over the validated records only
SkipAbstractFetchValidated(patent_data) ==
  [n \in 1..Len(ValidPatents(patent_data)) |->
     Update(ValidPatents(patent_data)[n],
            Enrichment(None, None, None, Some(SkippedMsg), Some(0), "skipped"))]

\* lines 401-409: every record of the converted file, with empty abstract fields
SkipAbstractFetch(patent_data) ==
  [n \in 1..Len(patent_data) |->
     Update(patent_data[n], Enrichment(None, None, None, Some(SkippedMsg), Some(0), "skipped"))]

\* test/mock_get_abst_patent.py for an id of the mock file and for another id
MockFound ==
  Exit(0, JObject([ID |-> Some(S("i")), Title |-> Some(S("t")), Abstract |-> Some(S("a")),
                   URL |-> Some(Url("https", "patents.google.com", << PatentSeg, S("i") >>)),
                   Error |-> None, RetryCount |-> Some(0)]),
       << "I", "\n" >>)
MockNotFound == Exit(1, ScrapedNull, << "I", "\n" >>)
MockOutcomes == {MockFound, MockNotFound, TimeoutExpired}

\* lines 487-505: the record of one patent in test mode
MockEnhance(patent, out) ==
  IF out.returncode = 0
  THEN LET abstract_data == out.stdout.value IN
       Update(patent, [abstract |-> Get(abstract_data, "Abstract"),
                       abstract_title |-> Get(abstract_data, "Title"),
                       abstract_url |-> Get(abstract_data, "URL"),
                       abstract_error |-> None])
  ELSE Update(patent, [abstract |-> None, abstract_title |-> None, abstract_url |-> None,
                       abstract_error |-> Some(out.stderr)])

\* _fetch_abstracts_with_mock: a timeout of the mock script is raised again
FetchAbstractsWithMock(patent_data, outs) ==
  IF \E n \in 1..Len(patent_data) : outs[n].kind # "exit"
  THEN [raised |-> TRUE, patents |-> << >>]
  ELSE [raised |-> FALSE,
        patents |-> [n \in 1..Len(patent_data) |-> MockEnhance(patent_data[n], outs[n])]]

\* the loop of extract_patent_data in one piece: outs[n] is what the scraper
\* does if it is run for the n-th record of the window
RECURSIVE ResolveAll(_, _, _)
ResolveAll(batch, st, outs) ==
  IF batch = << >> THEN [patents |-> << >>, store |-> st, attempts |-> << >>]
  ELSE LET r == FetchAbstractForPatent(Head(batch), st, Head(outs))
           rest == ResolveAll(Tail(batch), r.store, Tail(outs))
       IN [patents |-> << r.patent >> \o rest.patents,
           store |-> rest.store,
           attempts |-> << [id |-> Head(batch).id[1], source |-> r.patent.abstract_source,
                            abstract |-> r.patent.abstract, invoked |-> r.invoked,
                            returned |-> r.patent] >>
                        \o rest.attempts]

\* the scraper outcomes explored inside a workflow run
WorkflowOutcomes ==
  {Exit(0, ScrapedFull, << >>), Exit(1, Unparsable, << " ", "e", "\n" >>), TimeoutExpired}

Stages ==
  << "csv_to_json_converter", "patent_data_fetcher", "abstract_integrator", "relevance_scorer" >>

\* the stages in another order
AfterSwapped(stage) ==
  CASE stage = Stages[1] -> Stages[3]
    [] stage = Stages[3] -> Stages[2]
    [] stage = Stages[2] -> Stages[4]
    [] stage = Stages[4] -> "final"

\* where run_workflow goes after a stage
After(stage) ==
  CASE stage = Stages[1] -> Stages[2]
    [] stage = Stages[2] -> Stages[3]
    [] stage = Stages[3] -> Stages[4]
    [] stage = Stages[4] -> "final"

\* an entry of component_results
Completed == [status |-> "completed", error |-> None]
Failed(error) == [status |-> "failed", error |-> Some(error)]

CsvNotFoundMsg == << "Input CSV file not found" >>
ConversionFailedMsg == << "CSV to JSON conversion failed" >>
ConverterFirstMsg ==
  << "CSV to JSON converter must complete successfully before Patent Data Fetcher" >>
IntegratorFirstMsg ==
  << "Abstract Integrator must complete successfully before Relevance Scorer" >>
IntegratorFailedMsg == << "Abstract Integrator failed" >>
NoSpaceMsg == << "[Errno 28] No space left on device" >>
KeywordsNotFoundMsg == << "[Errno 2] No such file or directory" >>

\* self.results of __init__, lines 43-54
NotStarted ==
  [status |-> "not_started", start_time |-> None, end_time |-> None,
   component_results |-> << >>, final_results |-> None, error_log |-> << >>]

\* the files of the output directory, none written yet
NoOutputs ==
  [converted_patents |-> None, patents_with_abstracts |-> None, integrated_patents |-> None,
   scored_patents |-> None, scored_patents_sorted |-> None]

TopN == 10

\* lines 646-664: the ranking of the final results
TopPatents(valid_scored) ==
  LET top_patents == SubSeq(SortByScore(valid_scored), 1, Min(TopN, Len(valid_scored))) IN
  [i \in 1..Len(top_patents) |->
     [patent_id |-> Get(top_patents[i], "id"),
      title |-> Get(top_patents[i], "title"),
      relevance_score |-> ScoreKey(top_patents[i]),
      ranking |-> i,
      abstract |-> Get(top_patents[i], "abstract"),
      abstract_title |-> Get(top_patents[i], "abstract_title"),
      abstract_url |-> Get(top_patents[i], "abstract_url")]]

\* ------------------------------------------------------------------- inputs
RECURSIVE HasDistinctIds(_)
HasDistinctIds(list) ==
  \/ list = << >>
  \/ /\ \A n \in 2..Len(list) : list[n].id # Head(list).id
     /\ HasDistinctIds(Tail(list))

RECURSIVE ListsUpTo(_, _)
ListsUpTo(cands, n) ==
  IF n = 0 THEN {<< >>}
  ELSE LET shorter == ListsUpTo(cands, n - 1) IN
       shorter \cup {Append(l, c) : l \in shorter, c \in cands}

\* the patent lists an export of at most MaxPatents rows over cands holds:
\* id is the key of a record
PatentLists(cands) == {l \in ListsUpTo(cands, MaxPatents) : HasDistinctIds(l)}

\* what the fetcher writes for the outcomes of the scraper
FailureFile(patent, error) == File(ErrorData(patent.result_link, error))

\* directories in which the file of each id of ids is missing or has one of
\* contents, and no other file exists
Directories(ids, contents) ==
  {st \in [FileNames -> contents \cup {Absent}] :
     \A id \in Ids \ ids : st[GetAbstractFilePath(id)] = Absent}

VARIABLES
  patents,           \* the patent list of the input file
  dir_exists,        \* whether the abstracts directory exists
  store,             \* the abstracts directory: file name -> content
  pc,                \* "idle", "batch" inside extract_patent_data's loop, "raised"
  args,              \* start_number and batch_size of the last call, None before
  start_idx,
  end_idx,
  valid_patents,
  batch_patents,
  enhanced_patents,
  skipped_count,
  processed_count,
  sleeps,            \* the time.sleep calls of the current batch, in order
  log,               \* one entry per _fetch_abstract_for_patent call of the batch
  store0,            \* the directory when the current batch began
  batches,           \* extract_patent_data calls so far
  history,           \* what _fetch_abstract_for_patent returned, in every run so far
  integrated,        \* the last integrate_abstracts call since the resolver ran
  previous,          \* the integrate_abstracts call before that one
  csv,               \* the CSV export the orchestrator is run on
  config,            \* self.config: the enabled stages and continue_on_error
  mode,              \* "skip" (--skip_abstract_fetch), "mock" (test mode) or "fetch"
  keywords_config,   \* the scoring keywords file, None when there is none
  wpc,               \* where main and run_workflow are, "none" outside a workflow
  results,           \* self.results
  started,           \* the stages whose _run_ method was called, in order
  outputs,           \* the files of the output directory
  saved,             \* the file save_results wrote, None before
  exit_code          \* the code of sys.exit, None while the process runs

batchVars == << args, start_idx, end_idx, valid_patents, batch_patents, enhanced_patents,
                skipped_count, processed_count, sleeps, log, store0 >>
mergeVars == << integrated, previous >>
workflowVars == << csv, config, mode, keywords_config, wpc, results, started, outputs, saved,
                   exit_code >>
vars == << patents, dir_exists, store, pc, batchVars, batches, history, mergeVars,
           workflowVars >>

\* _load_config, lines 61-104, as far as run_workflow reads it
DefaultConfig ==
  [enabled |-> [stage \in {Stages[k] : k \in 1..4} |-> TRUE], continue_on_error |-> FALSE]

\* no workflow is run
NoWorkflow ==
  /\ csv = Csv(FALSE, << >>, TRUE)
  /\ config = DefaultConfig
  /\ mode = "fetch"
  /\ keywords_config = None
  /\ wpc = "none"
  /\ results = NotStarted
  /\ started = << >>
  /\ outputs = NoOutputs
  /\ saved = None
  /\ exit_code = None

InitWith(lists, dirs, done) ==
  /\ patents \in lists
  /\ store \in dirs
  /\ dir_exists \in {TRUE} \cup {\E f \in FileNames : store[f] # Absent}
  /\ pc = "idle"
  /\ args = None
  /\ start_idx = 0
  /\ end_idx = 0
  /\ valid_patents = << >>
  /\ batch_patents = << >>
  /\ enhanced_patents = << >>
  /\ skipped_count = 0
  /\ processed_count = 0
  /\ sleeps = << >>
  /\ log = << >>
  /\ store0 = store
  /\ batches = done
  /\ history = {}
  /\ integrated = None
  /\ previous = None

\* PatentDataFetcher(...) and extract_patent_data, lines 36 and 48-75: create
\* the directory, read, validate, select the window
ExtractPatentData(start_number, batch_size) ==
  /\ pc = "idle"
  /\ batches < MaxBatches
  /\ batches' = batches + 1
  /\ dir_exists' = TRUE
  /\ args' = Some([start_number |-> start_number, batch_size |-> batch_size])
  /\ valid_patents' = ValidPatents(patents)
  /\ start_idx' = StartIdx(start_number)
  /\ end_idx' = EndIdx(start_number, batch_size, Len(valid_patents'))
  /\ batch_patents' = BatchPatents(valid_patents', start_number, batch_size)
  /\ enhanced_patents' = << >>
  /\ skipped_count' = 0
  /\ processed_count' = 0
  /\ sleeps' = << >>
  /\ log' = << >>
  /\ store0' = store
  /\ integrated' = None
  /\ previous' = None
  /\ pc' = "batch"
  /\ UNCHANGED << patents, store, history, workflowVars >>

\* the loop with a retry: a record whose attempt failed is not appended and
\* is attempted again
ProcessPatentRetrying(out) ==
  /\ pc = "batch"
  /\ Len(enhanced_patents) < Len(batch_patents)
  /\ LET patent == batch_patents[Len(enhanced_patents) + 1]
         r == FetchAbstractForPatent(patent, store, out)
         source == r.patent.abstract_source
         again == r.raised \/ source \in {"error_saved", "timeout_saved", "exception_saved"}
     IN
     /\ store' = r.store
     /\ enhanced_patents' = IF again THEN enhanced_patents ELSE Append(enhanced_patents, r.patent)
     /\ skipped_count' = IF source = "cached_file" THEN skipped_count + 1 ELSE skipped_count
     /\ processed_count' = IF source = "newly_fetched" THEN processed_count + 1 ELSE processed_count
     /\ log' = Append(log, [patent |-> patent,
                            pre |-> store[GetAbstractFilePath(patent.id[1])],
                            post |-> r.store[GetAbstractFilePath(patent.id[1])],
                            invoked |-> r.invoked,
                            out |-> out])
     /\ history' = history \cup {[run |-> batches, id |-> patent.id[1], source |-> source,
                                  abstract |-> r.patent.abstract, returned |-> r.patent]}
  /\ UNCHANGED << patents, dir_exists, pc, args, start_idx, end_idx, valid_patents,
                  batch_patents, store0, sleeps, batches, mergeVars, workflowVars >>

\* one iteration of the loop of lines 76-92
ProcessPatent(out) ==
  /\ pc = "batch"
  /\ Len(enhanced_patents) < Len(batch_patents)
  /\ LET patent == batch_patents[Len(enhanced_patents) + 1]
         i == start_idx + Len(enhanced_patents) + 1
         r == FetchAbstractForPatent(patent, store, out)
         source == r.patent.abstract_source
     IN
     /\ store' = r.store
     \* an exception leaves the loop through lines 105-107
     /\ pc' = IF r.raised THEN "raised" ELSE pc
     /\ enhanced_patents' = IF r.raised THEN enhanced_patents ELSE Append(enhanced_patents, r.patent)
     /\ skipped_count' = IF source = "cached_file" THEN skipped_count + 1 ELSE skipped_count
     /\ processed_count' =
          IF source # "cached_file" /\ source \in ProcessedSources
          THEN processed_count + 1 ELSE processed_count
     /\ sleeps' =
          IF i < end_idx
          THEN Append(sleeps, IF source = "cached_file" THEN CachedSleep ELSE Delay)
          ELSE sleeps
     /\ log' = Append(log, [patent |-> patent,
                            pre |-> store[GetAbstractFilePath(patent.id[1])],
                            post |-> r.store[GetAbstractFilePath(patent.id[1])],
                            invoked |-> r.invoked,
                            out |-> out])
     /\ history' = history \cup {[run |-> batches, id |-> patent.id[1], source |-> source,
                                  abstract |-> r.patent.abstract, returned |-> r.patent]}
  /\ UNCHANGED << patents, dir_exists, args, start_idx, end_idx, valid_patents,
                  batch_patents, store0, batches, mergeVars, workflowVars >>

\* the scraper runs only on a cache miss: its outcome is chosen then
ResolveNext ==
  /\ pc = "batch"
  /\ Len(enhanced_patents) < Len(batch_patents)
  /\ LET patent == batch_patents[Len(enhanced_patents) + 1] IN
     IF HasCachedAbstract(LoadExistingAbstract(store, patent.id[1]))
     THEN ProcessPatent(TimeoutExpired)
     ELSE \E out \in Outcomes : ProcessPatent(out)

\* lines 93-98: the loop is over, return enhanced_patents
ExtractPatentDataReturn ==
  /\ pc = "batch"
  /\ Len(enhanced_patents) = Len(batch_patents)
  /\ pc' = "idle"
  /\ UNCHANGED << patents, dir_exists, store, batchVars, batches, history, mergeVars,
                  workflowVars >>

\* integrate_abstracts that also writes a placeholder file for each patent
\* it found no file for
IntegrateAbstractsSaving ==
  /\ pc = "idle"
  /\ \E files \in (IF dir_exists THEN GlobOrders(store) ELSE {<< >>}) :
       integrated' = Some([patents |-> patents, dir_exists |-> dir_exists, store |-> store,
                           result |-> IntegrateAll(patents, LoadAbstracts(files, store))])
  /\ previous' = integrated
  /\ store' = [f \in DOMAIN store |->
                IF /\ store[f] = Absent
                   /\ \E n \in 1..Len(patents) :
                        patents[n].id # None /\ GetAbstractFilePath(patents[n].id[1]) = f
                THEN File(ErrorData(None, << "Abstract file not found" >>))
                ELSE store[f]]
  /\ UNCHANGED << patents, dir_exists, pc, batchVars, batches, history, workflowVars >>

\* integrate_abstracts over the patent list and the directory
IntegrateAbstracts ==
  /\ pc = "idle"
  /\ \E files \in (IF dir_exists THEN GlobOrders(store) ELSE {<< >>}) :
       integrated' = Some([patents |-> patents, dir_exists |-> dir_exists, store |-> store,
                           result |-> IntegrateAll(patents, LoadAbstracts(files, store))])
  /\ previous' = integrated
  /\ UNCHANGED << patents, dir_exists, store, pc, batchVars, batches, history, workflowVars >>

\* the arguments tried on a list of total valid records: a start_number past
\* total + 1 or a batch_size past total selects what total + 1 and total select
StartNumbers(total) == 1..(total + 1)
BatchSizes(total) == {None} \cup {Some(n) : n \in 0..total}

Next ==
  \/ \E start_number \in StartNumbers(Len(ValidPatents(patents))),
        batch_size \in BatchSizes(Len(ValidPatents(patents))) :
       ExtractPatentData(start_number, batch_size)
  \/ ResolveNext
  \/ ExtractPatentDataReturn
  \/ IntegrateAbstracts

\* runs of the resolver and of the merger over a short export
Init ==
  /\ InitWith(PatentLists({GoodA, GoodB}),
              Directories({IdA, IdB}, {Corrupt}), 0)
  /\ NoWorkflow

Spec == Init /\ [][Next]_vars

\* one run of the resolver over lists of up to three valid records
InitWindow ==
  /\ InitWith(PatentLists({GoodA, GoodB, GoodC}),
              Directories({IdB}, {File(ScrapedFull)}), MaxBatches - 1)
  /\ NoWorkflow

SpecWindow == InitWindow /\ [][Next]_vars

\* any integer start_number and batch_size of the command line, around the
\* ends of a list of total valid records
AnyStartNumbers(total) == (0 - 1)..(total + 2)
AnyBatchSizes(total) == {None} \cup {Some(n) : n \in (0 - total - 1)..(total + 1)}

NextAnyWindow ==
  \/ \E start_number \in AnyStartNumbers(Len(ValidPatents(patents))),
        batch_size \in AnyBatchSizes(Len(ValidPatents(patents))) :
       ExtractPatentData(start_number, batch_size)
  \/ ResolveNext
  \/ ExtractPatentDataReturn

\* one run of the resolver with any start_number and batch_size
SpecAnyWindow == InitWindow /\ [][NextAnyWindow]_vars

\* one run of the resolver over lists with records the validation rejects
InitValidation ==
  /\ InitWith(PatentLists(Candidates \ {GoodC}), Directories({}, {}), MaxBatches - 1)
  /\ NoWorkflow

SpecValidation == InitValidation /\ [][Next]_vars

\* the merger over what the resolver, or anyone else, left in the directory
MergeContents ==
  {Corrupt, File(ScrapedFull), File(ScrapedNull), FailureFile(GoodA, TimeoutMsg)}

InitMerge ==
  /\ InitWith(PatentLists({GoodA, GoodB, WrongHost, NoId}),
              Directories({IdA, IdB, IdD}, MergeContents), MaxBatches)
  /\ NoWorkflow

NextMerge == IntegrateAbstracts

SpecMerge == InitMerge /\ [][NextMerge]_vars

\* ------------------------------------------------- the workflow, stage by stage
\* main, line 831, and run_workflow, lines 219-221
RunWorkflow ==
  /\ wpc = "main"
  /\ results' = [results EXCEPT !.status = "running", !.start_time = Some("start")]
  /\ wpc' = Stages[1]
  /\ UNCHANGED << patents, dir_exists, store, pc, batchVars, batches, history, mergeVars,
                  csv, config, mode, keywords_config, started, outputs, saved, exit_code >>

\* run_workflow skipping a continue_on_error stage that failed
StageEndsGoesOn(stage, result) ==
  /\ started' = Append(started, stage)
  /\ IF result.status = "completed" \/ config.continue_on_error
     THEN /\ results' = [results EXCEPT !.component_results = Update(@, stage :> result)]
          /\ wpc' = After(stage)
     ELSE /\ results' = [results EXCEPT
                           !.component_results = Update(@, stage :> result),
                           !.status = "failed",
                           !.error_log = Append(@, [stage |-> stage, error |-> result.error,
                                                    by |-> "stage"])]
          /\ wpc' = "raised"

\* run_workflow around the call of a _run_ method that recorded result: the
\* method raised (continue_on_error is false) or run_workflow raises for a
\* status other than completed; lines 267-271 record the failure
StageEnds(stage, result) ==
  /\ started' = Append(started, stage)
  /\ IF result.status = "completed"
     THEN /\ results' = [results EXCEPT !.component_results = Update(@, stage :> result)]
          /\ wpc' = After(stage)
     ELSE /\ results' = [results EXCEPT
                           !.component_results = Update(@, stage :> result),
                           !.status = "failed",
                           !.error_log =
                              Append(@, [stage |-> stage, error |-> result.error,
                                         by |-> IF config.continue_on_error
                                                THEN "run_workflow" ELSE "stage"])]
          /\ wpc' = "raised"

\* a stage that is not enabled
StageSkipped(stage) ==
  /\ wpc' = After(stage)
  /\ UNCHANGED << results, started >>

\* the entry of component_results is there and says completed
HasCompleted(stage) ==
  /\ stage \in DOMAIN results.component_results
  /\ results.component_results[stage].status = "completed"

\* lines 227-231 and _run_csv_to_json_converter
RunCsvToJsonConverter ==
  /\ wpc = Stages[1]
  /\ IF ~config.enabled[Stages[1]]
     THEN StageSkipped(Stages[1]) /\ UNCHANGED << patents, outputs >>
     ELSE \E fault \in {None, Some(CsvNotFoundMsg), Some(ConversionFailedMsg)} :
            IF fault = None
            THEN /\ patents' = ConvertCsvToJson(csv)
                 /\ outputs' = [outputs EXCEPT !.converted_patents = Some(patents')]
                 /\ StageEnds(Stages[1], Completed)
            ELSE /\ UNCHANGED << patents, outputs >>
                 /\ StageEnds(Stages[1], Failed(fault[1]))
  /\ UNCHANGED << dir_exists, store, pc, batchVars, batches, history, mergeVars,
                  csv, config, mode, keywords_config, saved, exit_code >>

MockTimeoutMsg == << "Command timed out after 30 seconds" >>

\* start_number and batch_size given on the command line
WorkflowArgs == {[start_number |-> 1, batch_size |-> None], [start_number |-> 2, batch_size |-> Some(1)]}

\* lines 398-417: the three ways of the stage to get patent_data
FetcherRuns ==
  CASE mode = "skip" ->
         {[raised |-> FALSE, patents |-> SkipAbstractFetch(patents), store |-> store,
           made_dir |-> FALSE, attempts |-> << >>]}
    [] mode = "mock" ->
         {LET r == FetchAbstractsWithMock(patents, outs) IN
          [raised |-> r.raised, patents |-> r.patents, store |-> store,
           made_dir |-> FALSE, attempts |-> << >>] :
            outs \in [1..Len(patents) -> MockOutcomes]}
    [] mode = "fetch" ->
         UNION {LET batch == BatchPatents(ValidPatents(patents), a.start_number, a.batch_size) IN
                {LET r == ResolveAll(batch, store, outs) IN
                 [raised |-> FALSE, patents |-> r.patents, store |-> r.store,
                  made_dir |-> TRUE, attempts |-> r.attempts] :
                   outs \in [1..Len(batch) -> WorkflowOutcomes]} :
                  a \in WorkflowArgs}

\* lines 234-238 and _run_patent_data_fetcher
RunPatentDataFetcher ==
  /\ wpc = Stages[2]
  /\ IF ~config.enabled[Stages[2]]
     THEN StageSkipped(Stages[2]) /\ UNCHANGED << dir_exists, store, history, outputs >>
     ELSE IF ~HasCompleted(Stages[1])
     THEN /\ StageEnds(Stages[2], Failed(ConverterFirstMsg))
          /\ UNCHANGED << dir_exists, store, history, outputs >>
     ELSE \E run \in FetcherRuns, write_fault \in BOOLEAN :
            /\ store' = run.store
            /\ dir_exists' = (dir_exists \/ run.made_dir)
            /\ history' = history \cup
                 {[run |-> batches, id |-> run.attempts[n].id, source |-> run.attempts[n].source,
                   abstract |-> run.attempts[n].abstract, returned |-> run.attempts[n].returned] :
                    n \in 1..Len(run.attempts)}
            /\ IF run.raised
               THEN /\ UNCHANGED outputs
                    /\ StageEnds(Stages[2], Failed(MockTimeoutMsg))
               ELSE IF write_fault
               THEN /\ UNCHANGED outputs
                    /\ StageEnds(Stages[2], Failed(NoSpaceMsg))
               ELSE /\ outputs' = [outputs EXCEPT !.patents_with_abstracts = Some(run.patents)]
                    /\ StageEnds(Stages[2], Completed)
  /\ UNCHANGED << patents, pc, batchVars, batches, mergeVars,
                  csv, config, mode, keywords_config, saved, exit_code >>

\* what _run_abstract_integrator records when process() does not complete:
\* lines 539-547 set no "error", the except branch of lines 556-561 does
IntegratorFailed ==
  [status |-> "failed",
   error |-> IF config.continue_on_error THEN None ELSE Some(IntegratorFailedMsg)]

\* lines 241-245, _run_abstract_integrator and AbstractIntegrator.process
RunAbstractIntegrator ==
  /\ wpc = Stages[3]
  /\ IF ~config.enabled[Stages[3]]
     THEN StageSkipped(Stages[3]) /\ UNCHANGED << dir_exists, outputs >>
     ELSE \E fault \in {None, Some(CsvNotFoundMsg), Some(ConversionFailedMsg)},
             files \in (IF dir_exists THEN GlobOrders(store) ELSE {<< >>}) :
            LET r == IntegrateAll(IntegratorCsvToJson(csv), LoadAbstracts(files, store)) IN
            IF fault = Some(CsvNotFoundMsg)
            THEN /\ UNCHANGED << dir_exists, outputs >>
                 /\ StageEnds(Stages[3], Failed(CsvNotFoundMsg))
            ELSE /\ dir_exists' = TRUE
                 /\ IF fault = None /\ r.ok
                    THEN /\ outputs' = [outputs EXCEPT !.integrated_patents = Some(r.patents)]
                         /\ StageEnds(Stages[3], Completed)
                    ELSE /\ UNCHANGED outputs
                         /\ StageEnds(Stages[3], IntegratorFailed)
  /\ UNCHANGED << patents, store, pc, batchVars, batches, history, mergeVars,
                  csv, config, mode, keywords_config, saved, exit_code >>

\* lines 248-252 and _run_relevance_scorer
RunRelevanceScorer ==
  /\ wpc = Stages[4]
  /\ IF ~config.enabled[Stages[4]]
     THEN StageSkipped(Stages[4]) /\ UNCHANGED outputs
     ELSE IF ~HasCompleted(Stages[3])
     THEN StageEnds(Stages[4], Failed(IntegratorFirstMsg)) /\ UNCHANGED outputs
     ELSE IF keywords_config = None
     THEN StageEnds(Stages[4], Failed(KeywordsNotFoundMsg)) /\ UNCHANGED outputs
     ELSE LET patent_data == outputs.integrated_patents[1]
              scored_data == CalculateRelevanceScores(patent_data, keywords_config[1])
              sorted_scored_data == SortByScore(ValidScored(scored_data))
          IN /\ outputs' = [outputs EXCEPT !.scored_patents = Some(scored_data),
                                           !.scored_patents_sorted = Some(sorted_scored_data)]
             /\ StageEnds(Stages[4], Completed)
  /\ UNCHANGED << patents, dir_exists, store, pc, batchVars, batches, history, mergeVars,
                  csv, config, mode, keywords_config, saved, exit_code >>

\* lines 255-263 and _generate_final_results
GenerateFinalResults ==
  /\ wpc = "final"
  /\ LET final_results ==
           IF HasCompleted(Stages[4])
           THEN LET scored_data == outputs.scored_patents[1]
                    valid_scored == ValidScored(scored_data)
                IN Some([total_patents |-> Len(scored_data),
                         nan_score_count |-> Len(scored_data) - Len(valid_scored),
                         top_patents |-> TopPatents(valid_scored)])
           ELSE results.final_results
     IN results' = [results EXCEPT !.final_results = final_results,
                                   !.end_time = Some("end"),
                                   !.status = "completed"]
  /\ wpc' = "returned"
  /\ UNCHANGED << patents, dir_exists, store, pc, batchVars, batches, history, mergeVars,
                  csv, config, mode, keywords_config, started, outputs, saved, exit_code >>

\* main, lines 831-843: save_results and sys.exit after run_workflow returned,
\* sys.exit(1) after it raised
MainExit ==
  /\ wpc \in {"returned", "raised"}
  /\ IF wpc = "raised"
     THEN exit_code' = Some(1) /\ UNCHANGED saved
     ELSE \E save_fault \in BOOLEAN :
            IF save_fault
            THEN exit_code' = Some(1) /\ UNCHANGED saved
            ELSE /\ saved' = Some(results)
                 /\ exit_code' = Some(IF results.status = "completed" THEN 0 ELSE 1)
  /\ wpc' = "exited"
  /\ UNCHANGED << patents, dir_exists, store, pc, batchVars, batches, history, mergeVars,
                  csv, config, mode, keywords_config, results, started, outputs >>

NextWorkflow ==
  \/ RunWorkflow
  \/ RunCsvToJsonConverter
  \/ RunPatentDataFetcher
  \/ RunAbstractIntegrator
  \/ RunRelevanceScorer
  \/ GenerateFinalResults
  \/ MainExit

\* the configurations of the stages
Configs ==
  [enabled : [{Stages[k] : k \in 1..4} -> BOOLEAN], continue_on_error : BOOLEAN]

\* the exports: up to MaxRows rows
MaxRows == 2
Csvs ==
  {Csv(preamble, rows, newline) :
     preamble \in BOOLEAN,
     rows \in {l \in ListsUpTo({GoodA, WrongHost, EmptyId}, MaxRows) : HasDistinctIds(l)},
     newline \in BOOLEAN}

\* a keywords file for the texts of the export and of the scraper
WorkflowKeywords ==
  [keyword_categories |->
     << [name |-> S("k"), score |-> PyInt(5), keywords |-> << S("a") >>],
        [name |-> S("m"), score |-> PyInt(3), keywords |-> << S("Y"), S("x") >>] >>]

\* one run of the orchestrator from the command line
InitWorkflow ==
  /\ InitWith({<< >>}, Directories({IdA}, {File(ScrapedBlank)}), MaxBatches)
  /\ csv \in Csvs
  /\ config \in Configs
  /\ mode \in {"skip", "mock", "fetch"}
  /\ keywords_config \in {None, Some(WorkflowKeywords)}
  /\ wpc = "main"
  /\ results = NotStarted
  /\ started = << >>
  /\ outputs = NoOutputs
  /\ saved = None
  /\ exit_code = None

SpecWorkflow == InitWorkflow /\ [][NextWorkflow]_vars

\* ------------------------------------------------ the scorer stage on its own
\* records as the scorer reads them: an id, a title and an abstract
ScoredInput(id, title, abstract) == [id |-> Some(S(id)), title |-> title, abstract |-> abstract]
ScorerRecords ==
  {ScoredInput("1", Some(<< "N", " ", "x" >>), Some(<< "l", " ", "l" >>)),
   ScoredInput("2", Some(<< "x" >>), None),
   ScoredInput("3", None, Some(<< "n", "l" >>)),
   ScoredInput("4", Some(<< "a" >>), Some(<< "a" >>))}

Category(score, keywords) == [name |-> S("c"), score |-> score, keywords |-> keywords]
KeywordsConfig(categories) == [keyword_categories |-> categories]

\* keywords files: two keywords, a keyword listed twice, two categories with
\* an upper-case keyword, a score that is NaN, a category without a score, an
\* empty keyword, a keyword with a space, a file without categories
ScorerConfigs ==
  {KeywordsConfig(<< Category(PyInt(5), << S("n"), S("l") >>) >>),
   KeywordsConfig(<< Category(PyInt(5), << S("n"), S("n") >>) >>),
   KeywordsConfig(<< Category(PyInt(3), << S("X") >>), Category(PyInt(2), << S("l"), S("a") >>) >>),
   KeywordsConfig(<< Category(NaN, << S("x") >>), Category(PyInt(1), << S("l") >>) >>),
   KeywordsConfig(<< [name |-> S("c"), keywords |-> << S("x") >>], Category(PyInt(1), << S("a") >>) >>),
   KeywordsConfig(<< Category(PyInt(1), << << >> >>) >>),
   KeywordsConfig(<< Category(PyInt(4), << << "x", " ", "l" >>, << "n", "l" >> >>) >>),
   << >>}

\* the longest list handed to the scorer
MaxScored == 3

\* run_workflow about to start the scorer: the stages before it completed and
\* the integrated file holds up to MaxScored records
InitScore ==
  /\ InitWith({<< >>}, Directories({}, {}), MaxBatches)
  /\ csv = Csv(FALSE, << >>, TRUE)
  /\ config \in {c \in Configs : \A k \in 1..3 : c.enabled[Stages[k]]}
  /\ mode = "fetch"
  /\ keywords_config \in {None} \cup {Some(k) : k \in ScorerConfigs}
  /\ wpc = Stages[4]
  /\ results = [NotStarted EXCEPT !.status = "running", !.start_time = Some("start"),
                                  !.component_results = [k \in {Stages[n] : n \in 1..3} |-> Completed]]
  /\ started = SubSeq(Stages, 1, 3)
  /\ \E list \in {l \in ListsUpTo(ScorerRecords, MaxScored) : HasDistinctIds(l)} :
       outputs = [NoOutputs EXCEPT !.integrated_patents = Some(list)]
  /\ saved = None
  /\ exit_code = None

NextScore ==
  \/ RunRelevanceScorer
  \/ GenerateFinalResults
  \/ MainExit

SpecScore == InitScore /\ [][NextScore]_vars

\* ------------------------------------------------------------- the scraper
\* (src/patent_analyzer/src/get_abst_patent.py)
\* extract_patent_id: the segment after the first /patent/ of the URL
ExtractPatentId(url) ==
  LET at == {k \in 1..(Len(url.path) - 1) : url.path[k] = PatentSeg /\ url.path[k + 1] # << >>} IN
  IF at = {} THEN None
  ELSE Some(url.path[(CHOOSE k \in at : \A m \in at : k <= m) + 1])

\* what requests.get and BeautifulSoup make of the URL: the request fails,
\* anything else fails, or the page has or lacks the title and abstract
\* elements (None) with the text they hold
RequestException(msg) == [kind |-> "request_error", msg |-> msg]
OtherException(msg) == [kind |-> "exception", msg |-> msg]
Page(title, abstract) == [kind |-> "page", title |-> title, abstract |-> abstract]

NotFoundForUrlMsg == << "404 Client Error: Not Found for url" >>
NoneTypeMsg == << "'NoneType' object is not callable" >>

Responses ==
  {RequestException(NotFoundForUrlMsg),
   OtherException(NoneTypeMsg),
   Page(Some(<< " ", "t" >>), Some(<< "a", "\n" >>)),
   Page(Some(S("t")), Some(<< " " >>)),
   Page(None, None)}

\* f"Error: {str(e)}"
ErrorText(msg) == << "Error: " >> \o msg

\* scrape_patent_info, lines 24-68
ScrapePatentInfo(url, response) ==
  IF response.kind = "page"
  THEN [ID |-> ExtractPatentId(url),
        Title |-> IF response.title # None THEN Some(Strip(response.title[1]))
                  ELSE Some(<< "Title not found" >>),
        Abstract |-> IF response.abstract # None THEN Some(Strip(response.abstract[1]))
                     ELSE Some(<< "Abstract not found" >>)]
  ELSE [ID |-> ExtractPatentId(url),
        Title |-> Some(ErrorText(response.msg)),
        Abstract |-> Some(ErrorText(response.msg))]

InvalidUrlFormatMsg == << "Error: Invalid URL format", "\n" >>

\* main, lines 71-104, run as "get_abst_patent.py -i url" with nothing on
\* standard input: the process ends with status 0 on every path; the
\* response is kept with the outcome for the record of the run
RunScraper(url, response) ==
  Update(IF url.scheme \in {"http", "https"}
         THEN Exit(0, JObject(ScrapePatentInfo(url, response)), << >>)
         ELSE Exit(0, JEmptyArray, InvalidUrlFormatMsg),
         [response |-> response])

\* one iteration of the loop of extract_patent_data with get_abst_patent.py
\* as the scraper, which runs on a cache miss and may be timed out
ResolveNextScraped ==
  /\ pc = "batch"
  /\ Len(enhanced_patents) < Len(batch_patents)
  /\ LET patent == batch_patents[Len(enhanced_patents) + 1] IN
     IF HasCachedAbstract(LoadExistingAbstract(store, patent.id[1]))
     THEN ProcessPatent(TimeoutExpired)
     ELSE \/ \E response \in Responses : ProcessPatent(RunScraper(patent.result_link[1], response))
          \/ ProcessPatent(TimeoutExpired)

NextScraper ==
  \/ \E start_number \in StartNumbers(Len(ValidPatents(patents))),
        batch_size \in BatchSizes(Len(ValidPatents(patents))) :
       ExtractPatentData(start_number, batch_size)
  \/ ResolveNextScraped
  \/ ExtractPatentDataReturn

\* two runs of the resolver with get_abst_patent.py as the scraper
InitScraper ==
  /\ InitWith(PatentLists({GoodA, GoodB}), Directories({IdA}, {File(ScrapedBlank)}), 0)
  /\ NoWorkflow

SpecScraper == InitScraper /\ [][NextScraper]_vars

\* --------------------------------------------------------------- properties
\* a text with a character that is no whitespace
NonBlank(text) == \E n \in 1..Len(text) : text[n] \notin Whitespace

\* the file holds a record whose Abstract is neither null nor blank
HoldsAbstract(content) ==
  /\ content.kind = "json"
  /\ content.doc.json = "object"
  /\ "Abstract" \in DOMAIN content.doc.value
  /\ content.doc.value.Abstract # None
  /\ NonBlank(content.doc.value.Abstract[1])

FileOf(patent) == GetAbstractFilePath(patent.id[1])
BatchReturned == pc = "idle" /\ args # None
FailureSources == {"error_saved", "timeout_saved", "exception_saved"}

\* C1: a resolve of a patent whose stored record has a non-null, non-blank
\* Abstract returns abstract_source = cached_file and does not run the scraper,
\* in the first run and in every later one.
C1_CacheCorrectness ==
  \A n \in 1..Len(enhanced_patents) :
    HoldsAbstract(log[n].pre) =>
      /\ enhanced_patents[n].abstract_source = "cached_file"
      /\ ~log[n].invoked

\* a later run resolves a patent whose abstract an earlier run stored
C1_Witness ==
  /\ batches = 2
  /\ \E n \in 1..Len(enhanced_patents) :
       HoldsAbstract(log[n].pre) /\ store0[FileOf(log[n].patent)] # Absent

C3_Finality ==
  [][\A f \in FileNames :
       /\ HoldsAbstract(store[f]) => store'[f] = store[f]
       /\ store'[f] # store[f] =>
            /\ ~HoldsAbstract(store[f])
            /\ Len(log') = Len(log) + 1
            /\ log'[Len(log')].invoked
            /\ FileOf(log'[Len(log')].patent) = f]_vars

\* a stored abstract has been through a merge and a resolve of a later run
C3_Witness ==
  /\ batches = 2
  /\ integrated # None
  /\ \E n \in 1..Len(log) :
       /\ HoldsAbstract(log[n].pre)
       /\ store[FileOf(log[n].patent)] = store0[FileOf(log[n].patent)]

\* C4: no outcome of the scraper makes resolve raise: the batch is never left
\* by an exception, every record of the window gets an enriched record, in
\* order, and while records remain the next one can be resolved.
C4_FailuresNeverAbort ==
  /\ pc # "raised"
  /\ Len(log) = Len(enhanced_patents)
  /\ \A n \in 1..Len(enhanced_patents) :
       /\ enhanced_patents[n].id = batch_patents[n].id
       /\ log[n].invoked /\ enhanced_patents[n].abstract_source # "newly_fetched"
            => enhanced_patents[n].abstract_source \in FailureSources
  /\ pc = "batch" /\ Len(enhanced_patents) < Len(batch_patents) => ENABLED ResolveNext
  /\ BatchReturned => Len(enhanced_patents) = Len(batch_patents)

\* a batch returned two records after a failure on its first record
C4_Witness ==
  /\ BatchReturned
  /\ Len(enhanced_patents) = 2
  /\ enhanced_patents[1].abstract_source \in FailureSources
  /\ log[1].out.kind = "exit"

\* the 1-based positions start .. min(start + size - 1, n) of the validated list
WindowLast ==
  IF args[1].batch_size = None THEN Len(valid_patents)
  ELSE Min(args[1].start_number + args[1].batch_size[1] - 1, Len(valid_patents))

Window ==
  [k \in 1..Max(WindowLast - args[1].start_number + 1, 0) |->
     valid_patents[args[1].start_number + k - 1]]

\* the record keeps every field of the patent it was made from
KeepsFields(enriched, patent) == \A k \in DOMAIN patent : enriched[k] = patent[k]

\* C5: with start >= 1 and size >= 0 or unbounded, the fetcher is called for
\* the validated records at positions start .. min(start + size - 1, n) and
\* for no other, once each and in that order; the records returned are theirs
\* in the same order; for a record outside the window no call is made and the
\* file of its id is as it was when the batch began.
C5_Windowing ==
  args # None =>
    /\ Len(log) <= Len(Window)
    /\ \A k \in 1..Len(log) : log[k].patent = Window[k]
    /\ Len(enhanced_patents) = Len(log)
    /\ \A k \in 1..Len(enhanced_patents) : KeepsFields(enhanced_patents[k], Window[k])
    /\ BatchReturned => Len(log) = Len(Window)
    /\ \A m \in 1..Len(valid_patents) :
         m < args[1].start_number \/ m > WindowLast =>
           /\ store[FileOf(valid_patents[m])] = store0[FileOf(valid_patents[m])]
           /\ \A k \in 1..Len(log) : log[k].patent # valid_patents[m]

\* start = 2, size = 1 on three valid records: only the second is resolved
C5_Witness ==
  /\ BatchReturned
  /\ Len(valid_patents) = 3
  /\ args[1].start_number = 2
  /\ args[1].batch_size = Some(1)
  /\ Len(log) = 1
  /\ log[1].invoked

\* the records the validation gate is to drop
Rejected(patent) ==
  \/ patent.id = None
  \/ patent.id[1] = << >>
  \/ patent.result_link = None
  \/ patent.result_link[1] = Url("", "", << >>)
  \/ ~ /\ patent.result_link[1].scheme \in {"http", "https"}
       /\ patent.result_link[1].netloc = "patents.google.com"
       /\ \E n \in 1..(Len(patent.result_link[1].path) - 1) :
            patent.result_link[1].path[n] = PatentSeg

\* C6: a record with a missing or empty id, a missing or empty result_link, or
\* a result_link that is not http(s)://patents.google.com/.../patent/... is
\* dropped before the window is taken: it is not among the validated records,
\* the fetcher is never called for it, it is not in the output, no file is
\* created for its id, and the batch goes on with the other records.
C6_ValidationGate ==
  /\ pc # "raised"
  /\ args # None =>
       Len(valid_patents) = Cardinality({m \in 1..Len(patents) : ~Rejected(patents[m])})
  /\ BatchReturned => Len(enhanced_patents) = Len(batch_patents)
  /\ \A m \in 1..Len(patents) :
       Rejected(patents[m]) =>
         /\ \A k \in 1..Len(valid_patents) : valid_patents[k] # patents[m]
         /\ \A k \in 1..Len(log) : log[k].patent # patents[m]
         /\ \A k \in 1..Len(enhanced_patents) : enhanced_patents[k].id # patents[m].id
         /\ patents[m].id # None /\ patents[m].id[1] \in Ids =>
              store[GetAbstractFilePath(patents[m].id[1])] = Absent

\* the record of https://example.com/foo stood before a record that was fetched
C6_Witness ==
  /\ BatchReturned
  /\ Len(patents) >= 2
  /\ patents[1] = WrongHost
  /\ Len(log) >= 1
  /\ log[1].invoked

HasNoRecord(merge, patent) ==
  \/ patent.id = None
  \/ ~merge.dir_exists
  \/ merge.store[FileOf(patent)] = Absent

NotFoundMsg == << "Abstract file not found" >>

\* C8 as claimed: for a patent id without a record in the Store, merge gives
\* abstract_source = not_found, abstract_error = "Abstract file not found" and
\* null in abstract, abstract_title, abstract_url and abstract_retry_count.
C8_NotFoundAllNull ==
  integrated # None /\ integrated[1].result.ok =>
    \A n \in 1..Len(integrated[1].patents) :
      HasNoRecord(integrated[1], integrated[1].patents[n]) =>
        LET merged == integrated[1].result.patents[n] IN
        /\ merged.abstract_source = "not_found"
        /\ merged.abstract_error = Some(NotFoundMsg)
        /\ merged.abstract = None
        /\ merged.abstract_title = None
        /\ merged.abstract_url = None
        /\ merged.abstract_retry_count = None

\* C8 as amended: the same, with abstract_retry_count = 0 in the place of null.
C8_NotFoundFallback ==
  integrated # None /\ integrated[1].result.ok =>
    \A n \in 1..Len(integrated[1].patents) :
      HasNoRecord(integrated[1], integrated[1].patents[n]) =>
        LET merged == integrated[1].result.patents[n] IN
        /\ merged.abstract_source = "not_found"
        /\ merged.abstract_error = Some(NotFoundMsg)
        /\ merged.abstract = None
        /\ merged.abstract_title = None
        /\ merged.abstract_url = None
        /\ merged.abstract_retry_count = Some(0)

\* a patent without a file merged beside a patent with one
C8_Witness ==
  /\ integrated # None
  /\ \E m, n \in 1..Len(integrated[1].patents) :
       /\ integrated[1].patents[m].id # None
       /\ integrated[1].store[FileOf(integrated[1].patents[m])] = Absent
       /\ integrated[1].patents[n].id # None
       /\ integrated[1].store[FileOf(integrated[1].patents[n])].kind = "json"

\* the field of a stored record, null when the record does not hold it
StoredField(record, k) == IF k \in DOMAIN record THEN record[k] ELSE None

\* C9: for a patent whose id has a stored record, merge copies Abstract, Title,
\* URL, Error and RetryCount (0 when the record has none) and sets
\* abstract_source = integrated_from_file, for a stored failure as for a
\* stored success.
C9_CopiesStoredRecord ==
  integrated # None /\ integrated[1].result.ok =>
    \A n \in 1..Len(integrated[1].patents) :
      LET patent == integrated[1].patents[n]
          merged == integrated[1].result.patents[n]
      IN
      /\ patent.id # None
      /\ integrated[1].store[FileOf(patent)].kind = "json"
      /\ integrated[1].store[FileOf(patent)].doc.json = "object"
      => LET stored == integrated[1].store[FileOf(patent)].doc.value IN
         /\ merged.abstract = StoredField(stored, "Abstract")
         /\ merged.abstract_title = StoredField(stored, "Title")
         /\ merged.abstract_url = StoredField(stored, "URL")
         /\ merged.abstract_error = StoredField(stored, "Error")
         /\ merged.abstract_retry_count =
              (IF "RetryCount" \in DOMAIN stored THEN stored.RetryCount ELSE Some(0))
         /\ merged.abstract_source = "integrated_from_file"

\* a stored failure and a stored success without RetryCount, both merged
C9_Witness ==
  /\ integrated # None
  /\ \E m, n \in 1..Len(integrated[1].patents) :
       /\ integrated[1].patents[m].id # None
       /\ integrated[1].store[FileOf(integrated[1].patents[m])] = FailureFile(GoodA, TimeoutMsg)
       /\ integrated[1].result.patents[m].abstract = None
       /\ integrated[1].patents[n].id # None
       /\ integrated[1].store[FileOf(integrated[1].patents[n])] = File(ScrapedFull)
       /\ integrated[1].result.patents[n].abstract_retry_count = Some(0)

\* C10: two merges of the same patent list against the same directory write
\* the same output, in whatever order the directory is read.
C10_MergeIdempotent ==
  /\ integrated # None
  /\ previous # None
  /\ integrated[1].patents = previous[1].patents
  /\ integrated[1].dir_exists = previous[1].dir_exists
  /\ integrated[1].store = previous[1].store
  => integrated[1].result = previous[1].result

\* two merges of two patents against a directory with two files
C10_Witness ==
  /\ integrated # None
  /\ previous # None
  /\ integrated[1].store = previous[1].store
  /\ Len(integrated[1].patents) >= 2
  /\ \E m, n \in 1..Len(integrated[1].patents) :
       /\ m # n
       /\ integrated[1].result.patents[m].abstract_source = "integrated_from_file"
       /\ integrated[1].result.patents[n].abstract_source = "integrated_from_file"

\* C11: a merge runs no scraper and leaves the directory as it was: the same
\* files, each with the same content.
C11_MergeReadOnly ==
  [][integrated' # None /\ << integrated', previous' >> # << integrated, previous >> =>
       /\ store' = store
       /\ log' = log
       /\ history' = history]_vars

\* a merge after a run that left a stored failure, of a list with a patent
\* that has no file
C11_Witness ==
  /\ integrated # None
  /\ batches >= 1
  /\ integrated[1].store = store
  /\ \E f \in FileNames : store[f].kind = "json" /\ ~HoldsAbstract(store[f])
  /\ \E n \in 1..Len(patents) : store[FileOf(patents[n])] = Absent

\* the file holds a failure record with this text, null Title and Abstract
HoldsFailure(content, error) ==
  /\ content.kind = "json"
  /\ content.doc.json = "object"
  /\ content.doc.value.Title = None
  /\ content.doc.value.Abstract = None
  /\ content.doc.value.Error = Some(error)

\* trimmed is text without its leading and trailing whitespace
IsTrimOf(trimmed, text) ==
  \E i, j \in 0..Len(text) :
    /\ trimmed = SubSeq(text, i + 1, j)
    /\ \A k \in 1..Len(text) : k <= i \/ k > j => text[k] \in Whitespace
    /\ trimmed # << >> => trimmed[1] \notin Whitespace /\ trimmed[Len(trimmed)] \notin Whitespace

\* C13 as claimed: on a cache miss, exit 0 with output that parses gives
\* newly_fetched and the parsed output is stored; a non-zero exit gives
\* error_saved with Error = the captured stderr; a timeout gives timeout_saved
\* with Error = "Timeout while fetching abstract"; any other exception gives
\* exception_saved; a stored failure has null Title and Abstract and its Error
\* is the abstract_error returned.
C13_OutcomeMappingAsClaimed ==
  \A n \in 1..Len(enhanced_patents) :
    log[n].invoked =>
      LET out == log[n].out
          returned == enhanced_patents[n]
      IN
      CASE out.kind = "exit" /\ out.returncode = 0 /\ out.stdout.json \in {"object", "array"} ->
             /\ returned.abstract_source = "newly_fetched"
             /\ log[n].post = File(out.stdout)
        [] out.kind = "exit" /\ out.returncode # 0 ->
             /\ returned.abstract_source = "error_saved"
             /\ HoldsFailure(log[n].post, out.stderr)
             /\ returned.abstract_error = Some(out.stderr)
        [] out.kind = "timeout" ->
             /\ returned.abstract_source = "timeout_saved"
             /\ HoldsFailure(log[n].post, TimeoutMsg)
             /\ returned.abstract_error = Some(TimeoutMsg)
        [] OTHER ->
             /\ returned.abstract_source = "exception_saved"
             /\ returned.abstract_error # None
             /\ HoldsFailure(log[n].post, returned.abstract_error[1])

\* C13 as amended: the same, with "a JSON object" in the place of "output that
\* parses" (any other output is one of the other exceptions) and with Error =
\* the captured stderr without its leading and trailing whitespace.
C13_OutcomeMapping ==
  \A n \in 1..Len(enhanced_patents) :
    log[n].invoked =>
      LET out == log[n].out
          returned == enhanced_patents[n]
      IN
      CASE out.kind = "exit" /\ out.returncode = 0 /\ out.stdout.json = "object" ->
             /\ returned.abstract_source = "newly_fetched"
             /\ log[n].post = File(out.stdout)
        [] out.kind = "exit" /\ out.returncode # 0 ->
             /\ returned.abstract_source = "error_saved"
             /\ returned.abstract_error # None
             /\ IsTrimOf(returned.abstract_error[1], out.stderr)
             /\ HoldsFailure(log[n].post, returned.abstract_error[1])
        [] out.kind = "timeout" ->
             /\ returned.abstract_source = "timeout_saved"
             /\ HoldsFailure(log[n].post, TimeoutMsg)
             /\ returned.abstract_error = Some(TimeoutMsg)
        [] OTHER ->
             /\ returned.abstract_source = "exception_saved"
             /\ returned.abstract_error # None
             /\ HoldsFailure(log[n].post, returned.abstract_error[1])

\* one batch with a success and a non-zero exit, the second of them after the
\* first
C13_Witness ==
  /\ BatchReturned
  /\ \E m, n \in 1..Len(log) :
       /\ m < n
       /\ log[m].invoked /\ enhanced_patents[m].abstract_source = "newly_fetched"
       /\ log[n].invoked /\ log[n].out.kind = "exit" /\ log[n].out.returncode # 0

\* resolves of earlier runs that returned newly_fetched for the id
FetchedBefore(id) ==
  {h \in history : h.run < batches /\ h.id = id /\ h.source = "newly_fetched"}

\* C14 as claimed: once a resolve has returned newly_fetched for an id, the
\* resolve of that id in any later run returns cached_file and does not run
\* the scraper.
C14_ResumeAsClaimed ==
  \A n \in 1..Len(enhanced_patents) :
    FetchedBefore(log[n].patent.id[1]) # {} =>
      /\ enhanced_patents[n].abstract_source = "cached_file"
      /\ ~log[n].invoked

\* C14 as amended: once a resolve has returned newly_fetched with an abstract
\* that is neither null nor blank for an id, the resolve of that id in any
\* later run returns cached_file and does not run the scraper.
C14_Resume ==
  \A n \in 1..Len(enhanced_patents) :
    (\E h \in FetchedBefore(log[n].patent.id[1]) :
       h.abstract # None /\ NonBlank(h.abstract[1])) =>
      /\ enhanced_patents[n].abstract_source = "cached_file"
      /\ ~log[n].invoked
      /\ enhanced_patents[n].abstract \in {h.abstract : h \in FetchedBefore(log[n].patent.id[1])}

\* the second run resolves a patent the first run fetched with an abstract
C14_Witness ==
  /\ batches = 2
  /\ \E n \in 1..Len(enhanced_patents) :
       \E h \in FetchedBefore(log[n].patent.id[1]) :
         h.abstract # None /\ NonBlank(h.abstract[1])

\* C15: in a later run, resolve runs the scraper for a record exactly when the
\* directory holds no readable record of its id or the stored Abstract is null
\* or blank; the file then holds the record of the new attempt.
C15_RetryOnlyFailures ==
  batches >= 2 =>
    \A n \in 1..Len(enhanced_patents) :
      /\ log[n].invoked <=> ~HoldsAbstract(log[n].pre)
      /\ log[n].invoked =>
           /\ log[n].post.kind = "json"
           /\ log[n].post.doc.json = "object"
           /\ log[n].post.doc.value.Abstract = enhanced_patents[n].abstract
           /\ enhanced_patents[n].abstract_source = "newly_fetched" =>
                log[n].post.doc = log[n].out.stdout
           /\ enhanced_patents[n].abstract_source # "newly_fetched" =>
                log[n].post = FailureFile(log[n].patent, enhanced_patents[n].abstract_error[1])

\* the second run retries a stored failure with another outcome and passes
\* over a stored abstract
C15_Witness ==
  /\ batches = 2
  /\ \E m, n \in 1..Len(log) :
       /\ log[m].pre.kind = "json" /\ ~HoldsAbstract(log[m].pre)
       /\ log[m].invoked /\ log[m].post # log[m].pre
       /\ HoldsAbstract(log[n].pre) /\ ~log[n].invoked


\* ---- C17 ----
\* keyword occurs somewhere in text
Occurs(keyword, text) ==
  \E i \in 1..(Len(text) - Len(keyword) + 1) : SubSeq(text, i, i + Len(keyword) - 1) = keyword

\* the text of field k, empty if the field is null or missing
TextOrEmpty(q, k) == IF k \in DOMAIN q /\ q[k] # None THEN q[k][1] ELSE << >>

\* title, a space and abstract in lower case
TitleAndAbstract(q) == Lower(TextOrEmpty(q, "title") \o << " " >> \o TextOrEmpty(q, "abstract"))

\* the distinct keywords of a list that occur in text, and the entries of the
\* list that do
DistinctFound(keywords, text) ==
  Cardinality({Lower(keywords[n]) : n \in {m \in 1..Len(keywords) : Occurs(Lower(keywords[m]), text)}})
EntriesFound(keywords, text) ==
  Cardinality({n \in 1..Len(keywords) : Occurs(Lower(keywords[n]), text)})

\* the sum over the categories of (keywords found) times score, a category
\* without a score weighing 0
RECURSIVE SumOverCategories(_, _, _)
SumOverCategories(categories, text, distinct) ==
  IF categories = << >> THEN PyInt(0)
  ELSE LET c == Head(categories)
           kws == IF "keywords" \in DOMAIN c THEN c.keywords ELSE << >>
           weight == IF "score" \in DOMAIN c THEN c.score ELSE PyInt(0)
           found == IF distinct THEN DistinctFound(kws, text) ELSE EntriesFound(kws, text)
       IN Plus(Times(found, weight), SumOverCategories(Tail(categories), text, distinct))

ConfiguredCategories ==
  IF "keyword_categories" \in DOMAIN keywords_config[1]
  THEN keywords_config[1].keyword_categories ELSE << >>

\* C17 as stated: the score of every record is the sum over the categories of
\* (number of DISTINCT keywords of the category that occur, whatever the case,
\* in title and abstract) times the category's score.
C17_ScoreFormulaAsClaimed ==
  HasCompleted(Stages[4]) =>
    \A n \in 1..Len(outputs.scored_patents[1]) :
      LET q == outputs.scored_patents[1][n] IN
      q.relevance_score[1] = SumOverCategories(ConfiguredCategories, TitleAndAbstract(q), TRUE)

\* C17: the score of every record is the sum over the categories of (number
\* of entries of the category's keyword list that occur at least once,
\* whatever the case, in the lower-cased text "title abstract") times the
\* category's score: several occurrences of a keyword in the text count once,
\* a keyword listed twice counts twice, a null or missing title or abstract
\* is empty text.
C17_ScoreFormula ==
  HasCompleted(Stages[4]) =>
    \A n \in 1..Len(outputs.scored_patents[1]) :
      LET q == outputs.scored_patents[1][n] IN
      q.relevance_score[1] = SumOverCategories(ConfiguredCategories, TitleAndAbstract(q), FALSE)

\* the example of the claim: score 5, two keywords, one in the title, the
\* other twice in the abstract, gives 10; and a record without abstract is scored
C17_Witness ==
  /\ HasCompleted(Stages[4])
  /\ keywords_config = Some(KeywordsConfig(<< Category(PyInt(5), << S("n"), S("l") >>) >>))
  /\ \E n, m \in 1..Len(outputs.scored_patents[1]) :
       /\ outputs.scored_patents[1][n].id = Some(S("1"))
       /\ outputs.scored_patents[1][n].relevance_score = Some(PyInt(10))
       /\ outputs.scored_patents[1][m].abstract = None

\* ---- C18 ----
\* C18: what calculate_relevance_scores returns is a permutation of its input
\* with a relevance_score added to every record, and no record is followed by
\* one with a greater score.
C18_ScorerOutputOrder ==
  HasCompleted(Stages[4]) =>
    LET input == outputs.integrated_patents[1]
        scored == outputs.scored_patents[1]
    IN /\ Len(scored) = Len(input)
       /\ \E f \in [1..Len(input) -> 1..Len(input)] :
            /\ \A i, j \in 1..Len(input) : f[i] = f[j] => i = j
            /\ \A n \in 1..Len(input) :
                 /\ "relevance_score" \in DOMAIN scored[n]
                 /\ scored[n] = Update(input[f[n]], [relevance_score |-> scored[n].relevance_score])
       /\ \A i, j \in 1..Len(scored) :
            i < j => ~Less(scored[i].relevance_score[1], scored[j].relevance_score[1])

\* the scorer moved a record with a greater score in front of one that came
\* before it in the input
C18_Witness ==
  /\ HasCompleted(Stages[4])
  /\ Len(outputs.scored_patents[1]) >= 2
  /\ outputs.scored_patents[1][1].id = outputs.integrated_patents[1][2].id
  /\ Less(outputs.scored_patents[1][2].relevance_score[1],
          outputs.scored_patents[1][1].relevance_score[1])

\* ---- C19 ----
\* C19: no record of scored_patents_sorted or of the top-patents ranking has a
\* NaN score; scored_patents holds every record of the scorer's input, NaN or
\* not, each at the position it had in the input.
C19_UndefinedScores ==
  HasCompleted(Stages[4]) =>
    LET input == outputs.integrated_patents[1]
        scored == outputs.scored_patents[1]
        sorted == outputs.scored_patents_sorted[1]
    IN /\ \A n \in 1..Len(sorted) : ~IsNaN(sorted[n].relevance_score[1])
       /\ wpc \in {"returned", "exited"} =>
            \A n \in 1..Len(results.final_results[1].top_patents) :
              ~IsNaN(results.final_results[1].top_patents[n].relevance_score)
       /\ Len(scored) = Len(input)
       /\ \A n \in 1..Len(input) : scored[n].id = input[n].id

\* ---- C20 ----
\* C20: once a stage is recorded with a status other than completed, it is the
\* last stage that was started, the status of the run is failed, the last
\* entry of the error list is about that stage, and the process exits, if it
\* has, with a code other than 0 -- whatever continue_on_error says.
C20_StageFailureStops ==
  \A stage \in DOMAIN results.component_results :
    results.component_results[stage].status # "completed" =>
      /\ started[Len(started)] = stage
      /\ results.status = "failed"
      /\ results.error_log # << >>
      /\ results.error_log[Len(results.error_log)].stage = stage
      /\ wpc \in {"raised", "exited"}
      /\ wpc = "exited" => exit_code # None /\ exit_code # Some(0)

\* with continue_on_error the first stage failed, and the process has exited
C20_Witness ==
  /\ config.continue_on_error
  /\ \A k \in 1..4 : config.enabled[Stages[k]]
  /\ Stages[1] \in DOMAIN results.component_results
  /\ results.component_results[Stages[1]].status = "failed"
  /\ wpc = "exited"
  /\ exit_code = Some(1)

\* ---- C12 ----
ProvenanceTags ==
  {"cached_file", "newly_fetched", "error_saved", "timeout_saved", "exception_saved",
   "not_found", "skipped"}

\* C12: every record written by the fetcher stage (by the batch resolver, the
\* skip path or the mock path) and every record written by the merger has an
\* abstract_source, and it is one of the seven tags.
C12_ProvenanceTagDomain ==
  \A file \in {outputs.patents_with_abstracts, outputs.integrated_patents} :
    file # None =>
      \A n \in 1..Len(file[1]) :
        /\ "abstract_source" \in DOMAIN file[1][n]
        /\ file[1][n].abstract_source \in ProvenanceTags


\* ---- C16 ----
\* C16: when get_abst_patent.py does not obtain the page (the request fails
\* or anything else is raised while scraping), the process ends with a status
\* other than 0 and text on standard error, the record returned has a null
\* abstract and abstract_source = error_saved, and the file holds a null
\* Abstract.
C16_ScraperFailureContract ==
  \A n \in 1..Len(enhanced_patents) :
    /\ n <= Len(log)
    /\ log[n].invoked
    /\ log[n].out.kind = "exit"
    /\ log[n].out.response.kind \in {"request_error", "exception"}
    => /\ log[n].out.returncode # 0
       /\ log[n].out.stderr # << >>
       /\ enhanced_patents[n].abstract = None
       /\ enhanced_patents[n].abstract_source = "error_saved"
       /\ log[n].post \notin {Absent, Corrupt}
       /\ Get(log[n].post.doc, "Abstract") = None


\* ---- C21 ----
\* C21: when the process has exited, the report has been saved, and the saved
\* report has status completed or failed and both start_time and end_time.
C21_ReportFinalised ==
  wpc = "exited" =>
    /\ saved # None
    /\ saved[1].status \in {"completed", "failed"}
    /\ saved[1].start_time # None
    /\ saved[1].end_time # None

\* ---- C22 ----
StageIndex(stage) == CHOOSE k \in 1..4 : Stages[k] = stage

\* the stages that were started, in the order of the pipeline
StartedInOrder ==
  \A i, j \in 1..Len(started) : i < j => StageIndex(started[i]) < StageIndex(started[j])

\* C22 as stated: the stages start in the order of the pipeline, a stage that
\* was started has all the stages before it completed, and the run is
\* completed only if all four stages are.
C22_StageOrderingAsClaimed ==
  /\ StartedInOrder
  /\ \A i \in 1..Len(started) :
       \A k \in 1..(StageIndex(started[i]) - 1) : HasCompleted(Stages[k])
  /\ results.status = "completed" => \A k \in 1..4 : HasCompleted(Stages[k])

\* C22: the stages that are enabled, and no other, start in the order of the
\* pipeline; a stage starts only after every stage started before it has
\* ended completed; the fetcher completes only after a completed converter
\* and the scorer only after a completed integrator; and the run is completed
\* only if every enabled stage is.
C22_StageOrdering ==
  /\ StartedInOrder
  /\ \A i \in 1..Len(started) :
       /\ config.enabled[started[i]]
       /\ i < Len(started) => HasCompleted(started[i])
  /\ HasCompleted(Stages[2]) => HasCompleted(Stages[1])
  /\ HasCompleted(Stages[4]) => HasCompleted(Stages[3])
  /\ results.status = "completed" =>
       \A k \in 1..4 : config.enabled[Stages[k]] => HasCompleted(Stages[k])

\* a run of the four stages that ended completed
C22_Witness ==
  /\ started = Stages
  /\ results.status = "completed"
  /\ \A k \in 1..4 : HasCompleted(Stages[k])

\* ---- C23 ----
\* C23: in one call of extract_patent_data the n-th attempt is for the n-th
\* record of the window, so no record is attempted twice, and a record whose
\* attempt ran the scraper has no later attempt in the call.
C23_NoRetryWithinRun ==
  /\ Len(log) <= Len(batch_patents)
  /\ \A n \in 1..Len(log) : log[n].patent = batch_patents[n]
  /\ \A m, n \in 1..Len(log) :
       m < n /\ log[m].invoked => log[n].patent.id # log[m].patent.id

\* a call that ended after a failed attempt for its first record and an
\* attempt for its second
C23_Witness ==
  /\ pc = "idle"
  /\ Len(log) = 2
  /\ Len(enhanced_patents) = 2
  /\ log[1].invoked
  /\ enhanced_patents[1].abstract_source \in {"error_saved", "timeout_saved", "exception_saved"}


\* ---- C24 ----
\* C24: while the window is resolved, a sleep has followed every record
\* resolved so far except the last record of the window (so k - 1 sleeps for
\* a window of k records, none for k <= 1, each before the next fetch), and
\* the sleep after a record is 0.5 if its result is cached_file and the
\* delay otherwise.
C24_Pacing ==
  args # None /\ pc \in {"batch", "idle"} =>
    /\ Len(sleeps) = Min(Len(enhanced_patents), Max(Len(batch_patents) - 1, 0))
    /\ \A n \in 1..Len(sleeps) :
         sleeps[n] = IF enhanced_patents[n].abstract_source = "cached_file"
                     THEN CachedSleep ELSE Delay

\* ---- C25 ----
\* the half-open window [start - 1, start - 1 + size) cut to the indices of
\* the validated list
ClampedWindow ==
  LET total == Len(valid_patents)
      lo == Max(args[1].start_number - 1, 0)
      hi == IF args[1].batch_size = None THEN total
            ELSE Min(args[1].start_number - 1 + args[1].batch_size[1], total)
  IN [k \in 1..Max(hi - lo, 0) |-> valid_patents[lo + k]]

\* C25: for any integer start and any integer or unbounded size, the records
\* the call attempts are those of the clamped window, in order, all of them
\* once the call has returned, and none when the window is empty.
C25_WindowClamping ==
  args # None =>
    /\ batch_patents = ClampedWindow
    /\ Len(log) <= Len(ClampedWindow)
    /\ \A k \in 1..Len(log) : log[k].patent = ClampedWindow[k]
    /\ BatchReturned => Len(log) = Len(ClampedWindow)

\* ---- C26 ----
\* C26: when the call has returned, skipped_count is the number of records
\* returned with cached_file, processed_count the number returned with
\* newly_fetched, error_saved, timeout_saved or exception_saved, and the two
\* add up to the number of records returned.
C26_BatchCounters ==
  BatchReturned =>
    /\ skipped_count =
         Cardinality({n \in 1..Len(enhanced_patents) :
                        enhanced_patents[n].abstract_source = "cached_file"})
    /\ processed_count =
         Cardinality({n \in 1..Len(enhanced_patents) :
                        enhanced_patents[n].abstract_source \in
                          {"newly_fetched", "error_saved", "timeout_saved", "exception_saved"}})
    /\ skipped_count + processed_count = Len(enhanced_patents)

\* a call returned a cache hit and a failed attempt
C26_Witness ==
  /\ BatchReturned
  /\ skipped_count = 1
  /\ processed_count = 1
  /\ \E n \in 1..Len(enhanced_patents) : enhanced_patents[n].abstract_source = "timeout_saved"


SecondResolves(first) ==
  {n \in 1..Len(enhanced_patents) : batches = 2 /\ enhanced_patents[n].id = first.returned.id}

\* C28 as stated: a record returned as newly_fetched by the first run is
\* returned by the second run with the same fields, but for abstract_source
\* = cached_file.
C28_CacheRoundTripAsClaimed ==
  \A first \in history :
    first.run = 1 /\ first.source = "newly_fetched" =>
      \A n \in SecondResolves(first) :
        enhanced_patents[n] = [first.returned EXCEPT !.abstract_source = "cached_file"]

\* C28: a record returned as newly_fetched with a non-null, non-blank abstract
\* by the first run is returned by the second run with the same abstract,
\* abstract_title, abstract_url and abstract_retry_count, with abstract_source
\* = cached_file, and with the Error of the stored record as abstract_error
\* (null when the scraper's output has no Error or a null one).
C28_CacheRoundTrip ==
  \A first \in history :
    /\ first.run = 1
    /\ first.source = "newly_fetched"
    /\ first.abstract # None
    /\ NonBlank(first.abstract[1])
    => \A n \in SecondResolves(first) :
         LET stored == log[n].pre.doc.value IN
         enhanced_patents[n] =
           [first.returned EXCEPT !.abstract_source = "cached_file",
                                  !.abstract_error = StoredField(stored, "Error")]

\* the second run returned a record the first run had fetched, with its title
C28_Witness ==
  \E first \in history :
    /\ first.run = 1
    /\ first.source = "newly_fetched"
    /\ first.returned.abstract_title # None
    /\ \E n \in SecondResolves(first) :
         /\ enhanced_patents[n].abstract_source = "cached_file"
         /\ enhanced_patents[n].abstract_title = first.returned.abstract_title

\* ---- C29 ----
\* C29: a merge that follows a call of the resolver yields, for every record
\* the call returned, the abstract, abstract_title, abstract_url,
\* abstract_error and abstract_retry_count the resolver returned.
C29_ResolverMergerAgreement ==
  BatchReturned /\ integrated # None /\ integrated[1].result.ok =>
    \A n \in 1..Len(enhanced_patents) :
      \A m \in 1..Len(integrated[1].patents) :
        integrated[1].patents[m].id = enhanced_patents[n].id =>
          LET merged == integrated[1].result.patents[m]
              resolved == enhanced_patents[n]
          IN /\ merged.abstract = resolved.abstract
             /\ merged.abstract_title = resolved.abstract_title
             /\ merged.abstract_url = resolved.abstract_url
             /\ merged.abstract_error = resolved.abstract_error
             /\ merged.abstract_retry_count = resolved.abstract_retry_count

\* ---- C30 ----
IdsOf(list) == [n \in 1..Len(list) |-> list[n].id]

\* C30: once both the conversion stage and the merger stage have written
\* their files in a run, the ids of the integrated records are the ids of the
\* converted records, in the same order.
C30_SamePatentList ==
  outputs.converted_patents # None /\ outputs.integrated_patents # None =>
    IdsOf(outputs.integrated_patents[1]) = IdsOf(outputs.converted_patents[1])

====
